---- MODULE Spec2Model ----
(***************************************************************************)
(* Model of the regional proxy node of KlawFetch (api/src/index.ts):       *)
(* the token verification cache, the /v1/fetch and /v1/usage handlers and  *)
(* the in-memory usage ledger with its periodic, forced and shutdown       *)
(* flushes; and of the two edge routers in front of the nodes               *)
(* (functions/v1/[[path]].js and functions/api/[[path]].ts).                *)
(*                                                                         *)
(* Node's event loop runs one callback at a time, so every action below is *)
(* the code between two suspension points (await of a network call).      *)
(***************************************************************************)
EXTENDS Integers, Sequences, FiniteSets, TLC

\* ---------------------------------------------------------------- bounds
\* The clock advances in steps of TickMs milliseconds, MaxTicks times.
TickMs == 30000
MaxTicks == 2
\* Number of requests that can be in flight at once, and requests ever made
\* (MaxCacheRequests under SpecCache, which leaves the flushes out).
NumSlots == 2
MaxRequests == 2
MaxCacheRequests == 3
\* Requests ever made under SpecGate, which offers every kind of body.
MaxGateRequests == 1
\* Requests ever made under SpecLedger.
MaxLedgerRequests == 3
\* Requests ever made under SpecLive.
MaxLiveRequests == 2
\* Requests ever made under SpecUsage, to /v1/fetch and /v1/usage together.
MaxUsageRequests == 2
\* The ledger cap of the handler (10000 in the source), scaled down so that
\* the forced flush happens within MaxRequests requests.
HARD_CAP == 1

\* ------------------------------------------------------- program constants
TOKEN_CACHE_TTL == 60000
MAX_TIMEOUT == 30000

Slots == 1..NumSlots
Tokens == {"tokA", "tokB"}
MaxTime == MaxTicks * TickMs

\* ------------------------------------------------------------ data model
\* VerifyResponse: can_afford is optional ("absent"), error only when invalid,
\* balance and cost_per_unit only when valid (-1 when absent).
NoAuth ==
  [valid |-> FALSE, agent_id |-> "none", can_afford |-> "absent", error |-> "none",
   balance |-> 0 - 1, cost_per_unit |-> 0 - 1]

AgentOf(token) == IF token = "tokA" THEN "agentA" ELSE "agentB"

BalanceOf(token) == IF token = "tokA" THEN 0 ELSE 7

ValidResult(token, afford) ==
  [valid |-> TRUE, agent_id |-> AgentOf(token), can_afford |-> afford, error |-> "none",
   balance |-> BalanceOf(token), cost_per_unit |-> 1]

InvalidResult(msg) ==
  [valid |-> FALSE, agent_id |-> "none", can_afford |-> "absent", error |-> msg,
   balance |-> 0 - 1, cost_per_unit |-> 0 - 1]

\* What the identity backend can do with a verify call.
VerifyOutcomes == {"valid_true", "valid_false", "valid_absent", "invalid", "transport", "undecodable"}

\* Host names as character sequences, as URL.hostname returns them.
H_localhost == <<"l","o","c","a","l","h","o","s","t">>
H_loopback == <<"1","2","7",".","0",".","0",".","1">>
H_ten == <<"1","0",".","0",".","0",".","5">>
H_lan == <<"1","9","2",".","1","6","8",".","1",".","1">>
H_public == <<"a",".","i","o">>
H_hundred == <<"1","0","0",".","1",".","1",".","1">>

StartsWith(s, p) == Len(s) >= Len(p) /\ SubSeq(s, 1, Len(p)) = p

\* A timeout a caller asks for that is below the maximum.
ShortTimeout == 10000

\* Request bodies: json is how c.req.json() ends, url what body.url holds.
MkBody(j, u, h, t) == [json |-> j, url |-> u, host |-> h, timeout |-> t]
NoBody == MkBody("malformed", "absent", <<>>, 0)
Bodies ==
  { NoBody,
    MkBody("null", "absent", <<>>, 0),
    MkBody("object", "absent", <<>>, 0),
    MkBody("object", "unparseable", <<>>, 0),
    MkBody("object", "ok", H_loopback, 0),
    MkBody("object", "ok", H_ten, 0),
    MkBody("object", "ok", H_public, 0),
    MkBody("object", "ok", H_public, ShortTimeout),
    MkBody("object", "ok", H_public, 0 - 1) }

\* Every kind of body for the gates: also a JSON value that is no object and
\* not null (a number, a string, an array), the other hosts, and a timeout at
\* the maximum and above it (timeout 0 stands for a timeout that is absent
\* or 0, which `body.timeout || 30000` does not tell apart).
GateBodies ==
  Bodies \cup
  { MkBody("scalar", "absent", <<>>, 0),
    MkBody("object", "ok", H_localhost, 0),
    MkBody("object", "ok", H_lan, 0),
    MkBody("object", "ok", H_hundred, 0),
    MkBody("object", "ok", H_public, MAX_TIMEOUT),
    MkBody("object", "ok", H_public, MAX_TIMEOUT + 1) }

\* A body that passes every gate; with it the body that does not parse, and
\* with them a body for a blocked host.
PlainBody == MkBody("object", "ok", H_public, 0)
LedgerBodies == {NoBody, PlainBody}
CacheBodies == LedgerBodies \cup {MkBody("object", "ok", H_loopback, 0)}

\* Authorization headers: absent, another scheme, 'Bearer ' + token
\* (the token may be empty).
Headers == {"none", "basic", "bearer"}

\* What the target can do with the outbound call.
UpstreamStatuses == {200, 500}

\* ----------------------------------------------------------------- state
VARIABLES
  now,          \* Date.now(), in ms
  alive,        \* FALSE once process.exit(0) has run
  tokenCache,   \* tokenCache: token -> entry {result, expires} (or NoEntry)
  pendingUsage, \* pendingUsage: the ledger, a sequence of usage records
  flights,      \* reportUsage() calls suspended at their await fetch(...)
  reqs,         \* /v1/fetch handlers suspended at an await, one per slot
  budget,       \* number of requests still to come (bounds the model)
  tokens,       \* the bearer tokens that clients present (never changes)
  bodies,       \* the request bodies that clients send (never changes)
  nextId,       \* identity given to the next usage record (history)
  ackCount,     \* per record: how often a batch holding it got an ok status
  stores,       \* the valid results verifyToken got and stored, in order (history)
  denied,       \* tokens whose last verification returned valid:false (history)
  run,          \* the flush cycles since the ledger was last appended to
  ev,           \* what the last step did and answered (history)
  edge          \* the call of an edge router in progress, or the last one

vars == <<now, alive, tokenCache, pendingUsage, flights, reqs, budget, tokens, bodies, edge, nextId,
          ackCount, stores, denied, run, ev>>

NoEntry == [present |-> FALSE, result |-> NoAuth, expires |-> 0]
Entry(result, expires) == [present |-> TRUE, result |-> result, expires |-> expires]

IdleReq ==
  [pc |-> "idle", token |-> "", body |-> NoBody, auth |-> NoAuth,
   startTime |-> 0, fetchAt |-> 0, timeout |-> 0]

\* A response of the router: its HTTP status and the fields of its JSON body.
\* The envelopes of the gates carry no region and no latency_ms (-1 here);
\* `upstream` is the status field of the success envelope (0 when absent);
\* agent_id and pending_records are fields of the /v1/usage body, balance and
\* cost_per_request of it and of the 402, pending_usage_records of the
\* /health body ("none" and -1 when absent).
Resp(status, error) ==
  [status |-> status, error |-> error, region |-> FALSE, latency_ms |-> 0 - 1,
   upstream |-> 0, agent_id |-> "none", pending_records |-> 0 - 1,
   balance |-> 0 - 1, cost_per_request |-> 0 - 1, pending_usage_records |-> 0 - 1]
TimedResp(status, error, latency) ==
  [status |-> status, error |-> error, region |-> TRUE, latency_ms |-> latency,
   upstream |-> 0, agent_id |-> "none", pending_records |-> 0 - 1,
   balance |-> 0 - 1, cost_per_request |-> 0 - 1, pending_usage_records |-> 0 - 1]
Envelope(upstream, latency) ==
  [status |-> 200, error |-> "none", region |-> TRUE, latency_ms |-> latency,
   upstream |-> upstream, agent_id |-> "none", pending_records |-> 0 - 1,
   balance |-> 0 - 1, cost_per_request |-> 0 - 1, pending_usage_records |-> 0 - 1]
NoResp == Resp(0, "none")
\* {error: 'Insufficient credits', balance, cost_per_request}, 402
Resp402(auth) ==
  [Resp(402, "Insufficient credits") EXCEPT
     !.balance = auth.balance, !.cost_per_request = auth.cost_per_unit]

\* The last step: the operation, the header, token and body of the request, the response sent
\* (NoResp if none), how verifyToken went and what it returned, whether the
\* identity backend and the target were called, how the outbound fetch ended
\* and whether a forced flush was started.
Ev(op, token, body, resp, verify, auth, backendCall, outbound, fetch, forced) ==
  [op |-> op, header |-> "bearer", token |-> token, body |-> body, resp |-> resp,
   verify |-> verify, auth |-> auth, backendCall |-> backendCall,
   outbound |-> outbound, fetch |-> fetch, forced |-> forced]
\* A step of a request whose Authorization header is h.
WithHeader(e, h) == [e EXCEPT !.header = h]
QuietEv(op) ==
  WithHeader(Ev(op, "", NoBody, NoResp, "none", NoAuth, FALSE, FALSE, "none", FALSE), "none")

NoRun == [active |-> FALSE, ledger |-> <<>>, fails |-> 0, done |-> FALSE, sent |-> <<>>]

Ids(records) == {records[i].id : i \in 1..Len(records)}
FlightIds == UNION {Ids(f.batch) : f \in flights}

\* ------------------------------------------------------- the edge routers
\* BACKENDS and REGION_SERVERS: the same four entries in both files.
BACKENDS ==
  [r \in {"eu-frankfurt", "ap-sydney", "us-west", "us-east"} |->
     CASE r = "eu-frankfurt" -> "http://fra.klawfetch.xyz:3000"
       [] r = "ap-sydney" -> "http://syd.klawfetch.xyz:3000"
       [] r = "us-west" -> "http://sfo.klawfetch.xyz:3000"
       [] r = "us-east" -> "http://nyc.klawfetch.xyz:3000"]
REGION_SERVERS == BACKENDS
DEFAULT_REGION == "us-east"

\* A value that is not there (undefined), and the value of a property that
\* an object literal inherits from Object.prototype (a function or an
\* object: truthy, and not an address).
Undefined == "(undefined)"
Inherited == "(inherited)"
ObjectPrototypeKeys == {"constructor", "toString", "__proto__"}

\* BACKENDS[key]: an own property, an inherited one, or undefined.
Get(key) ==
  IF key \in DOMAIN BACKENDS THEN BACKENDS[key]
  ELSE IF key \in ObjectPrototypeKeys THEN Inherited
  ELSE Undefined

\* JavaScript truthiness, of the values that occur here.
Truthy(v) == v \notin {Undefined, ""}

\* The text of a request body: JSON for an object whose region is `region`
\* (Undefined: no such key), for null, for another value that is not an
\* object, or text that is not JSON.
EdgeBody(json, region) == [json |-> json, region |-> region]
NoEdgeBody == EdgeBody("none", Undefined)
RegionValues ==
  DOMAIN BACKENDS \cup ObjectPrototypeKeys \cup {Undefined, "", "mars", "US-EAST"}
EdgeBodies ==
  {EdgeBody("object", r) : r \in RegionValues}
    \cup {EdgeBody("null", Undefined), EdgeBody("scalar", Undefined),
          EdgeBody("invalid", Undefined)}
Methods == {"GET", "POST", "DELETE", "OPTIONS"}

\* JSON.parse(bodyText) throws on text that is not JSON, and body.region
\* throws on null; on a number, string or boolean it is undefined.
ParseThrows(b) == b.json \in {"invalid", "null"}
BodyRegion(b) == IF b.json = "object" THEN b.region ELSE Undefined

\* The region the /v1 router settles on: that of the body of a POST whose
\* region is truthy and has a truthy BACKENDS[region], else the default.
SelectRegion(method, b) ==
  IF /\ method = "POST"
     /\ ~ParseThrows(b)
     /\ Truthy(BodyRegion(b))
     /\ Truthy(Get(BodyRegion(b)))
  THEN BodyRegion(b)
  ELSE DEFAULT_REGION

\* The location codes of the three lists of getServerForRegion.
Europe == {"FRA", "AMS", "LHR", "CDG", "WAW", "VIE", "PRG", "ZRH", "MIL", "MAD", "BCN"}
AsiaPacific == {"SYD", "MEL", "SIN", "HKG", "NRT", "ICN", "BOM", "DEL", "BKK"}
USWest == {"SFO", "LAX", "SEA", "SJC", "PDX", "DEN", "PHX"}

\* cf.colo as the router can get it: a code of the lists, in another case, a
\* code of no list, the empty string, or nothing.
Colos ==
  Europe \cup AsiaPacific \cup USWest
    \cup {"fra", "Syd", "sfo", "JFK", "jfk", "GRU", "", Undefined}

\* colo.toUpperCase(), on the codes of Colos.
ToUpperCase(c) ==
  CASE c = "fra" -> "FRA"
    [] c = "Syd" -> "SYD"
    [] c = "sfo" -> "SFO"
    [] c = "jfk" -> "JFK"
    [] OTHER -> c

getServerForRegion(colo) ==
  IF ~Truthy(colo) THEN REGION_SERVERS["us-east"]
  ELSE LET upper == ToUpperCase(colo) IN
       IF upper \in Europe THEN REGION_SERVERS["eu-frankfurt"]
       ELSE IF upper \in AsiaPacific THEN REGION_SERVERS["ap-sydney"]
       ELSE IF upper \in USWest THEN REGION_SERVERS["us-west"]
       ELSE REGION_SERVERS["us-east"]

\* A call of a router: which one, where it is, its request, the region and
\* the address it settled on, and the status it answered with (0: not yet).
EdgeCall(route, pc, method, body, colo, region, target, status) ==
  [route |-> route, pc |-> pc, method |-> method, body |-> body, colo |-> colo,
   region |-> region, target |-> target, status |-> status]
EdgeIdle == EdgeCall("none", "idle", "none", NoEdgeBody, Undefined, Undefined, Undefined, 0)

Init ==
  /\ now = 0
  /\ alive = TRUE
  /\ tokenCache = [t \in Tokens |-> NoEntry]
  /\ pendingUsage = <<>>
  /\ flights = {}
  /\ reqs = [s \in Slots |-> IdleReq]
  /\ budget = MaxRequests
  /\ tokens = {"tokA"}
  /\ bodies = Bodies
  /\ nextId = 1
  /\ ackCount = [i \in 1..MaxCacheRequests |-> 0]
  /\ stores = <<>>
  /\ denied = {}
  /\ run = NoRun
  /\ ev = QuietEv("init")
  /\ edge = EdgeIdle

\* ------------------------------------------------------------ verifyToken
Min(a, b) == IF a <= b THEN a ELSE b

\* Variant: an entry is still served at the instant it expires.
CacheHit_AtExpiry(cache, token, t) == cache[token].present /\ cache[token].expires >= t

\* cached && cached.expires > Date.now()
CacheHit(cache, token, t) == cache[token].present /\ cache[token].expires > t

\* Variant: an empty token is let through.
EmptyTokenResult_Valid == ValidResult("", "true")

\* if (!token) return { valid: false, error: 'No token provided' }
EmptyTokenResult == InvalidResult("No token provided")

\* Variant: a hit renews the expiry of the entry (sliding expiry).
CacheAfterHit_Renew(cache, token, t) ==
  [cache EXCEPT ![token] = Entry(cache[token].result, t + TOKEN_CACHE_TTL)]

\* return cached.result: the entry is read, nothing is written
CacheAfterHit(cache, token, t) == cache

\* Variant: a failed backend call is taken as authorization (fail open).
VerifyResult_FailOpen(token, outcome) ==
  CASE outcome = "valid_true" -> ValidResult(token, "true")
    [] outcome = "valid_false" -> ValidResult(token, "false")
    [] outcome = "valid_absent" -> ValidResult(token, "absent")
    [] outcome = "invalid" -> InvalidResult("Invalid token")
    [] OTHER -> ValidResult(token, "true")

\* What verifyToken returns for each way the backend call can end: the decoded
\* body, or the fail-closed result of the catch block.
VerifyResult(token, outcome) ==
  CASE outcome = "valid_true" -> ValidResult(token, "true")
    [] outcome = "valid_false" -> ValidResult(token, "false")
    [] outcome = "valid_absent" -> ValidResult(token, "absent")
    [] outcome = "invalid" -> InvalidResult("Invalid token")
    [] OTHER -> InvalidResult("Authentication service unavailable")

\* Variant: a valid result does not replace an entry that is still fresh.
CacheAfterVerify_KeepFresh(cache, token, data, t) ==
  IF data.valid /\ ~(cache[token].present /\ cache[token].expires > t)
  THEN [cache EXCEPT ![token] = Entry(data, t + TOKEN_CACHE_TTL)]
  ELSE cache

\* Variant: every decoded result is cached, valid or not.
CacheAfterVerify_Always(cache, token, data, t) ==
  [cache EXCEPT ![token] = Entry(data, t + TOKEN_CACHE_TTL)]

\* if (data.valid) tokenCache.set(token, {result: data, expires: now + TTL})
CacheAfterVerify(cache, token, data, t) ==
  IF data.valid THEN [cache EXCEPT ![token] = Entry(data, t + TOKEN_CACHE_TTL)]
  ELSE cache

\* ------------------------------------------------- the gates of /v1/fetch
P_lan == <<"1","9","2",".","1","6","8",".">>
P_ten == <<"1","0",".">>

\* Variant: only the two exact names are blocked, the prefixes are not.
BlockedHost_ExactOnly(h) == h = H_localhost \/ h = H_loopback

\* hostname === 'localhost' || hostname === '127.0.0.1' ||
\* hostname.startsWith('192.168.') || hostname.startsWith('10.')
BlockedHost(h) ==
  h = H_localhost \/ h = H_loopback \/ StartsWith(h, P_lan) \/ StartsWith(h, P_ten)

\* Variant: the requested timeout is taken as it is.
ClampTimeout_NoCap(t) == IF t = 0 THEN MAX_TIMEOUT ELSE t

\* Math.min(body.timeout || 30000, 30000)
ClampTimeout(t) == Min(IF t = 0 THEN MAX_TIMEOUT ELSE t, MAX_TIMEOUT)

\* Variant: the block list is not consulted.
GateResponse_NoBlockList(auth, body) ==
  IF ~auth.valid THEN Resp(401, auth.error)
  ELSE IF auth.can_afford = "false" THEN Resp402(auth)
  ELSE IF body.json = "malformed" THEN Resp(400, "Invalid JSON body")
  ELSE IF body.json = "null" THEN Resp(500, "Internal server error")
  ELSE IF body.url = "absent" THEN Resp(400, "Missing required field: url")
  ELSE IF body.url = "unparseable" THEN Resp(400, "Invalid URL")
  ELSE IF ClampTimeout(body.timeout) < 0 THEN Resp(500, "Internal server error")
  ELSE NoResp

\* Variant: a token is turned away unless can_afford is true.
GateResponse_AffordRequired(auth, body) ==
  IF ~auth.valid THEN Resp(401, auth.error)
  ELSE IF auth.can_afford # "true" THEN Resp402(auth)
  ELSE IF body.json = "malformed" THEN Resp(400, "Invalid JSON body")
  ELSE IF body.json = "null" THEN Resp(500, "Internal server error")
  ELSE IF body.url = "absent" THEN Resp(400, "Missing required field: url")
  ELSE IF body.url = "unparseable" THEN Resp(400, "Invalid URL")
  ELSE IF BlockedHost(body.host) THEN Resp(403, "Internal URLs not allowed")
  ELSE IF ClampTimeout(body.timeout) < 0 THEN Resp(500, "Internal server error")
  ELSE NoResp

\* The response of the first gate that rejects, NoResp when all gates pass.
\* A body that is JSON null makes body.url throw, and AbortSignal.timeout
\* throws on a negative delay: both end in app.onError.
GateResponse(auth, body) ==
  IF ~auth.valid THEN Resp(401, auth.error)
  ELSE IF auth.can_afford = "false" THEN Resp402(auth)
  ELSE IF body.json = "malformed" THEN Resp(400, "Invalid JSON body")
  ELSE IF body.json = "null" THEN Resp(500, "Internal server error")
  ELSE IF body.url = "absent" THEN Resp(400, "Missing required field: url")
  ELSE IF body.url = "unparseable" THEN Resp(400, "Invalid URL")
  ELSE IF BlockedHost(body.host) THEN Resp(403, "Internal URLs not allowed")
  ELSE IF ClampTimeout(body.timeout) < 0 THEN Resp(500, "Internal server error")
  ELSE NoResp

\* ------------------------------------------------------------ reportUsage
\* Variant: the record carries a fixed status instead of response.status.
UsageRecord_FixedStatus(id, agent, status, latency) ==
  [id |-> id, agent_id |-> agent, status |-> 200, latency_ms |-> latency]

UsageRecord(id, agent, status, latency) ==
  [id |-> id, agent_id |-> agent, status |-> status, latency_ms |-> latency]

\* Variant: the batch is copied (slice) and the ledger keeps its records.
LedgerAfterDrain_Keep(ledger) == ledger

\* const records = pendingUsage.splice(0, pendingUsage.length)
DrainedBatch(ledger) == ledger
LedgerAfterDrain(ledger) == <<>>

\* Variant: a failed submission is dropped instead of pushed back.
LedgerAfterFailure_Drop(ledger, batch) == ledger

\* Variant: a failed submission replaces the ledger instead of joining it.
LedgerAfterFailure_Replace(ledger, batch) == batch

\* pendingUsage.push(...records), in the !response.ok branch and in the catch
LedgerAfterFailure(ledger, batch) == ledger \o batch

Flight(batch, kind) == [batch |-> batch, kind |-> kind, during |-> {}]

\* Variant: reportUsage without its first line submits whatever the ledger
\* holds, an empty batch included.
FlightsAfterReport_NoEmptyCheck(ledger, fl, kind) ==
  fl \cup {Flight(DrainedBatch(ledger), kind)}

\* reportUsage() up to its await: nothing on an empty ledger, else the drain
\* and the submission of the batch.
FlightsAfterReport(ledger, fl, kind) ==
  IF Len(ledger) = 0 THEN fl ELSE fl \cup {Flight(DrainedBatch(ledger), kind)}
LedgerAfterReport(ledger) ==
  IF Len(ledger) = 0 THEN ledger ELSE LedgerAfterDrain(ledger)

\* The flush cycles since the last append (history): a cycle starts with the
\* ledger L when no other flush is in flight.
RunAfterReport(r, ledger, fl) ==
  IF Len(ledger) = 0 THEN r
  ELSE IF fl # {} THEN NoRun
  ELSE IF r.active /\ ~r.done /\ Ids(r.ledger) = Ids(ledger) THEN r
  ELSE [active |-> TRUE, ledger |-> ledger, fails |-> 0, done |-> FALSE, sent |-> <<>>]

\* ------------------------------------------------------- POST /v1/fetch
\* The handler from the point where verifyToken has returned `auth` to its
\* next await: the gates, then either a rejection or the outbound fetch.
Continue(s, op, tok, body, auth, startTime, verify, backendCall) ==
  LET g == GateResponse(auth, body) IN
  IF g # NoResp
  THEN /\ reqs' = [reqs EXCEPT ![s] = IdleReq]
       /\ ev' = Ev(op, tok, body, g, verify, auth, backendCall, FALSE, "none", FALSE)
  ELSE /\ reqs' = [reqs EXCEPT ![s] =
                     [pc |-> "fetching", token |-> tok, body |-> body, auth |-> auth,
                      startTime |-> startTime, fetchAt |-> now,
                      timeout |-> ClampTimeout(body.timeout)]]
       /\ ev' = Ev(op, tok, body, NoResp, verify, auth, backendCall, TRUE, "none", FALSE)

\* History: the stored results of `tok` that a verification starting at time
\* t finds older than the TTL are marked as seen expired.
SeenAfter(log, tok, t) ==
  [i \in 1..Len(log) |->
     IF log[i].token = tok /\ t >= log[i].at + TOKEN_CACHE_TTL
     THEN [log[i] EXCEPT !.seen = TRUE] ELSE log[i]]

\* Requests are handled alike, so a new one takes the lowest free slot.
FreeSlot(s) == reqs[s].pc = "idle" /\ \A q \in Slots : q < s => reqs[q].pc # "idle"

\* A request arrives: the header check, then verifyToken up to its await
\* (empty token, cache hit, or the call to the identity backend).
ReqStart(s) ==
  /\ alive
  /\ FreeSlot(s)
  /\ budget > 0
  /\ budget' = budget - 1
  /\ UNCHANGED <<tokens, bodies, edge>>
  /\ \E h \in Headers, tok \in tokens \cup {""}, b \in bodies :
       /\ h # "bearer" => tok = ""
       /\ tokenCache' = IF h = "bearer" /\ tok # "" /\ CacheHit(tokenCache, tok, now)
                        THEN CacheAfterHit(tokenCache, tok, now)
                        ELSE tokenCache
       /\ stores' = IF h = "bearer" /\ tok # "" THEN SeenAfter(stores, tok, now) ELSE stores
       /\ denied' = IF h = "bearer" THEN denied \ {tok} ELSE denied
       /\ IF h # "bearer"
          THEN /\ reqs' = reqs
               /\ ev' = WithHeader(Ev("request", tok, b,
                                       Resp(401, "Missing or invalid Authorization header"),
                                       "none", NoAuth, FALSE, FALSE, "none", FALSE), h)
          ELSE IF tok = ""
          THEN Continue(s, "request", tok, b, EmptyTokenResult, now, "empty", FALSE)
          ELSE IF CacheHit(tokenCache, tok, now)
          THEN Continue(s, "request", tok, b, tokenCache[tok].result, now, "hit", FALSE)
          ELSE /\ reqs' = [reqs EXCEPT ![s] =
                             [pc |-> "verifying", token |-> tok, body |-> b,
                              auth |-> NoAuth, startTime |-> now, fetchAt |-> 0,
                              timeout |-> 0]]
               /\ ev' = Ev("request", tok, b, NoResp, "miss", NoAuth, TRUE, FALSE, "none", FALSE)
  /\ UNCHANGED <<now, alive, pendingUsage, flights, nextId, ackCount, run>>

\* The identity backend answers (or the call fails): the rest of verifyToken,
\* then the handler goes on to the gates.
VerifyReturn(s) ==
  /\ alive
  /\ reqs[s].pc = "verifying"
  /\ \E outcome \in VerifyOutcomes :
       LET tok == reqs[s].token
           data == VerifyResult(tok, outcome)
       IN /\ tokenCache' = CacheAfterVerify(tokenCache, tok, data, now)
          /\ stores' = IF data.valid
                       THEN Append(stores, [token |-> tok, at |-> now, result |-> data,
                                            seen |-> FALSE])
                       ELSE stores
          /\ denied' = IF data.valid THEN denied \ {tok} ELSE denied \cup {tok}
          /\ Continue(s, "verified", tok, reqs[s].body, data, reqs[s].startTime,
                      outcome, FALSE)
  /\ UNCHANGED <<now, alive, pendingUsage, flights, budget, tokens, bodies, edge, nextId, ackCount, run>>

\* Every flush in flight notes the records appended meanwhile (history).
NoteAppend(fl, id) == {[f EXCEPT !.during = @ \cup {id}] : f \in fl}

\* How the outbound fetch can end: a response whose body is read, a response
\* whose body read fails, a transport error, or the abort of the timeout.
FetchOutcomes == {"response", "body_error", "transport", "timeout"}

\* Variant: every failure of the outbound fetch is answered 502.
CatchResponse_All502(outcome, latency) == TimedResp(502, "fetch failed", latency)

\* Variant: every failure of the outbound fetch is answered 504.
CatchResponse_All504(outcome, latency) == TimedResp(504, "Request timeout", latency)

\* The response of the catch block of the handler.
CatchResponse(outcome, latency) ==
  IF outcome = "timeout" THEN TimedResp(504, "Request timeout", latency)
  ELSE TimedResp(502, "fetch failed", latency)

\* Variant: the flush is forced as soon as the ledger reaches the cap.
OverCap_AtCap(ledger) == Len(ledger) >= HARD_CAP

\* pendingUsage.length > 10000
OverCap(ledger) == Len(ledger) > HARD_CAP

\* The outbound fetch settles: on a response the record is pushed, the forced
\* flush is started when the ledger is over the cap, and the envelope is
\* returned; on a failure the catch block answers 504 or 502.
FetchReturn(s) ==
  /\ alive
  /\ reqs[s].pc = "fetching"
  /\ \E outcome \in FetchOutcomes, st \in UpstreamStatuses :
       LET r == reqs[s]
           latency == now - r.startTime
           rec == UsageRecord(nextId, r.auth.agent_id, st, latency)
           ledger == pendingUsage \o <<rec>>
           noted == NoteAppend(flights, nextId)
       IN /\ outcome # "response" => st = 200
          /\ outcome = "timeout" => now - r.fetchAt >= r.timeout
          /\ outcome = "response" => now - r.fetchAt < r.timeout
          /\ IF outcome = "response"
             THEN /\ nextId' = nextId + 1
                  /\ IF OverCap(ledger)
                     THEN /\ pendingUsage' = LedgerAfterReport(ledger)
                          /\ flights' = FlightsAfterReport(ledger, noted, "forced")
                          /\ run' = RunAfterReport(NoRun, ledger, noted)
                     ELSE /\ pendingUsage' = ledger
                          /\ flights' = noted
                          /\ run' = NoRun
                  /\ ev' = Ev("fetched", r.token, r.body, Envelope(st, latency), "none", NoAuth,
                              FALSE, FALSE, outcome, OverCap(ledger))
             ELSE /\ UNCHANGED <<nextId, pendingUsage, flights, run>>
                  /\ ev' = Ev("fetched", r.token, r.body, CatchResponse(outcome, latency), "none",
                              NoAuth, FALSE, FALSE, outcome, FALSE)
  /\ reqs' = [reqs EXCEPT ![s] = IdleReq]
  /\ UNCHANGED <<now, alive, tokenCache, budget, tokens, bodies, edge, ackCount, stores, denied>>

\* --------------------------------------------------------- GET /v1/usage
\* Variant: pending_records counts the whole ledger, whatever the agent.
UsageResponse_CountAll(auth, ledger) ==
  [status |-> 200, error |-> "none", region |-> TRUE, latency_ms |-> 0 - 1,
   upstream |-> 0, agent_id |-> auth.agent_id, pending_records |-> Len(ledger),
   balance |-> auth.balance, cost_per_request |-> auth.cost_per_unit,
   pending_usage_records |-> 0 - 1]

\* pendingUsage.filter(r => r.agent_id === auth.agent_id).length, with the
\* fields of auth, in a 200.
UsageResponse(auth, ledger) ==
  [status |-> 200, error |-> "none", region |-> TRUE, latency_ms |-> 0 - 1,
   upstream |-> 0, agent_id |-> auth.agent_id,
   pending_records |->
     Cardinality({i \in 1..Len(ledger) : ledger[i].agent_id = auth.agent_id}),
   balance |-> auth.balance, cost_per_request |-> auth.cost_per_unit,
   pending_usage_records |-> 0 - 1]

\* The handler once verifyToken has returned `auth`.
UsageAnswer(auth) ==
  IF ~auth.valid THEN Resp(401, auth.error) ELSE UsageResponse(auth, pendingUsage)

\* A request for /v1/usage arrives: the header check, then verifyToken up to
\* its await.
UsageStart(s) ==
  /\ alive
  /\ FreeSlot(s)
  /\ budget > 0
  /\ budget' = budget - 1
  /\ \E h \in Headers, tok \in tokens \cup {""} :
       /\ h # "bearer" => tok = ""
       /\ stores' = IF h = "bearer" /\ tok # "" THEN SeenAfter(stores, tok, now) ELSE stores
       /\ denied' = IF h = "bearer" THEN denied \ {tok} ELSE denied
       /\ IF h # "bearer"
          THEN /\ reqs' = reqs
               /\ ev' = WithHeader(Ev("usage", tok, NoBody, Resp(401, "Unauthorized"),
                                       "none", NoAuth, FALSE, FALSE, "none", FALSE), h)
          ELSE IF tok = ""
          THEN /\ reqs' = reqs
               /\ ev' = Ev("usage", tok, NoBody, UsageAnswer(EmptyTokenResult),
                           "empty", EmptyTokenResult, FALSE, FALSE, "none", FALSE)
          ELSE IF CacheHit(tokenCache, tok, now)
          THEN /\ reqs' = reqs
               /\ ev' = Ev("usage", tok, NoBody, UsageAnswer(tokenCache[tok].result),
                           "hit", tokenCache[tok].result, FALSE, FALSE, "none", FALSE)
          ELSE /\ reqs' = [reqs EXCEPT ![s] =
                             [pc |-> "usage_verifying", token |-> tok, body |-> NoBody,
                              auth |-> NoAuth, startTime |-> now, fetchAt |-> 0,
                              timeout |-> 0]]
               /\ ev' = Ev("usage", tok, NoBody, NoResp, "miss", NoAuth, TRUE, FALSE,
                           "none", FALSE)
  /\ UNCHANGED <<now, alive, tokenCache, pendingUsage, flights, tokens, bodies, edge, nextId,
                 ackCount, run>>

\* The identity backend answers the verify call of a /v1/usage request: the
\* rest of verifyToken, then the answer.
UsageVerifyReturn(s) ==
  /\ alive
  /\ reqs[s].pc = "usage_verifying"
  /\ \E outcome \in VerifyOutcomes :
       LET tok == reqs[s].token
           data == VerifyResult(tok, outcome)
       IN /\ tokenCache' = CacheAfterVerify(tokenCache, tok, data, now)
          /\ stores' = IF data.valid
                       THEN Append(stores, [token |-> tok, at |-> now, result |-> data,
                                            seen |-> FALSE])
                       ELSE stores
          /\ denied' = IF data.valid THEN denied \ {tok} ELSE denied \cup {tok}
          /\ ev' = Ev("usage_verified", tok, NoBody, UsageAnswer(data), outcome, data,
                      FALSE, FALSE, "none", FALSE)
  /\ reqs' = [reqs EXCEPT ![s] = IdleReq]
  /\ UNCHANGED <<now, alive, pendingUsage, flights, budget, tokens, bodies, edge, nextId, ackCount, run>>

\* ------------------------------------------------------------ GET /health
\* Variant: the count reported stops at the cap of the ledger.
HealthResponse_Capped(ledger) ==
  [Resp(200, "none") EXCEPT !.region = TRUE,
                            !.pending_usage_records = Min(Len(ledger), HARD_CAP)]

\* {status: 'ok', region, timestamp, pending_usage_records: pendingUsage.length}
HealthResponse(ledger) ==
  [Resp(200, "none") EXCEPT !.region = TRUE, !.pending_usage_records = Len(ledger)]

\* A request for /health: no authorization, no await, answered in one step.
Health ==
  /\ alive
  /\ ev' = WithHeader(Ev("health", "", NoBody, HealthResponse(pendingUsage), "none", NoAuth,
                         FALSE, FALSE, "none", FALSE), "none")
  /\ UNCHANGED <<now, alive, tokenCache, pendingUsage, flights, reqs, budget, tokens, bodies, edge,
                 nextId, ackCount, stores, denied, run>>

\* ------------------------------------------------- flushes of the ledger
\* setInterval(reportUsage, USAGE_REPORT_INTERVAL): a tick of the timer runs
\* reportUsage up to its await.
PeriodicFlush ==
  /\ alive
  /\ pendingUsage' = LedgerAfterReport(pendingUsage)
  /\ flights' = FlightsAfterReport(pendingUsage, flights, "interval")
  /\ run' = RunAfterReport(run, pendingUsage, flights)
  /\ ev' = QuietEv(IF Len(pendingUsage) = 0 THEN "flush_noop" ELSE "flush_start")
  /\ UNCHANGED <<now, alive, tokenCache, reqs, budget, tokens, bodies, edge, nextId, ackCount, stores, denied>>

\* How the submission to the usage endpoint can end: an ok status with a JSON
\* body, an ok status whose body does not decode, a status that is not ok, or
\* a transport failure.
FlushOutcomes == {"ok", "ok_undecodable", "not_ok", "transport"}

\* response.ok
OkStatus(outcome) == outcome \in {"ok", "ok_undecodable"}

\* Variant: only the !response.ok branch pushes the batch back, the catch
\* block does not.
Requeues_OnlyStatus(outcome) == outcome = "not_ok"

\* Variant: the batch is pushed back whatever the submission returned.
Requeues_Always(outcome) == TRUE

\* The batch is pushed back in the !response.ok branch and in the catch block,
\* which also catches a failing response.json() of the ok branch.
Requeues(outcome) == outcome # "ok"

Bump(n) == IF n >= 2 THEN 2 ELSE n + 1

\* History: a failed flush (status not ok, transport failure) adds to the
\* failures of the cycle; a successful one after two failures completes it.
RunAfterReturn(r, batch, outcome) ==
  IF ~r.active \/ r.done THEN NoRun
  ELSE IF outcome \in {"not_ok", "transport"} THEN [r EXCEPT !.fails = Bump(@)]
  ELSE IF outcome = "ok" /\ r.fails = 2 THEN [r EXCEPT !.done = TRUE, !.sent = batch]
  ELSE NoRun

\* The submission of flight f settles as `outcome`: the rest of reportUsage,
\* and for the flush of a signal handler process.exit(0) after it.
FlushReturnAs(f, outcome) ==
  /\ alive
  /\ f \in flights
  /\ pendingUsage' = IF Requeues(outcome)
                     THEN LedgerAfterFailure(pendingUsage, f.batch)
                     ELSE pendingUsage
  /\ ackCount' = [i \in DOMAIN ackCount |->
                    IF OkStatus(outcome) /\ i \in Ids(f.batch)
                    THEN Bump(ackCount[i]) ELSE ackCount[i]]
  /\ run' = RunAfterReturn(run, f.batch, outcome)
  /\ ev' = QuietEv(outcome)
  /\ flights' = flights \ {f}
  /\ alive' = (f.kind # "shutdown")
  /\ UNCHANGED <<now, tokenCache, reqs, budget, tokens, bodies, edge, nextId, stores, denied>>

FlushReturn(f) == \E outcome \in FlushOutcomes : FlushReturnAs(f, outcome)

\* SIGTERM or SIGINT: await reportUsage(); process.exit(0). With an empty
\* ledger reportUsage returns at once and the process exits in this step.
Signal ==
  /\ alive
  /\ pendingUsage' = LedgerAfterReport(pendingUsage)
  /\ flights' = FlightsAfterReport(pendingUsage, flights, "shutdown")
  /\ run' = RunAfterReport(run, pendingUsage, flights)
  /\ alive' = (Len(pendingUsage) # 0)
  /\ ev' = QuietEv(IF Len(pendingUsage) = 0 THEN "exit" ELSE "signal")
  /\ UNCHANGED <<now, tokenCache, reqs, budget, tokens, bodies, edge, nextId, ackCount, stores, denied>>

\* Time passes.
Tick ==
  /\ alive
  /\ now < MaxTime
  /\ now' = now + TickMs
  /\ ev' = QuietEv("tick")
  /\ UNCHANGED <<alive, tokenCache, pendingUsage, flights, reqs, budget, tokens, bodies, edge, nextId,
                 ackCount, stores, denied, run>>

\* ------------------------------------------------------- the edge routers
\* The variables of the node, which the routers do not touch.
nodeVars == <<now, alive, tokenCache, pendingUsage, flights, reqs, budget, tokens, bodies,
              nextId, ackCount, stores, denied, run, ev>>

\* What the backend (or the attempt to reach it) gives the router: a
\* response with some status, or an exception, answered with 502.
ForwardStatuses == {200, 401, 502}

\* functions/v1: a request arrives. OPTIONS is answered at once; a POST
\* awaits its body; any other method goes to the default region.
V1Request ==
  /\ edge.pc \in {"idle", "done"}
  /\ \E method \in Methods, b \in EdgeBodies :
       /\ method # "POST" => b = EdgeBody("invalid", Undefined)
       /\ edge' =
            IF method = "OPTIONS"
            THEN EdgeCall("v1", "done", method, NoEdgeBody, Undefined, Undefined, Undefined, 204)
            ELSE IF method = "POST"
            THEN EdgeCall("v1", "reading", method, b, Undefined, Undefined, Undefined, 0)
            ELSE EdgeCall("v1", "forwarding", method, NoEdgeBody, Undefined,
                          SelectRegion(method, NoEdgeBody),
                          Get(SelectRegion(method, NoEdgeBody)), 0)
  /\ UNCHANGED nodeVars

\* functions/v1: the body of the POST is there: the region, the address, and
\* the request to the backend; `new Request` throws on what is not a URL,
\* and the catch block answers 502.
V1BodyRead ==
  /\ edge.pc = "reading"
  /\ LET region == SelectRegion(edge.method, edge.body)
         backendBase == Get(region)
     IN edge' = IF backendBase \in {BACKENDS[r] : r \in DOMAIN BACKENDS}
                THEN [edge EXCEPT !.pc = "forwarding", !.region = region,
                                  !.target = backendBase]
                ELSE [edge EXCEPT !.pc = "done", !.region = region,
                                  !.target = backendBase, !.status = 502]
  /\ UNCHANGED nodeVars

\* functions/api: a request arrives and is sent to the server of its colo.
ApiRequest ==
  /\ edge.pc \in {"idle", "done"}
  /\ \E method \in Methods \ {"OPTIONS"}, colo \in Colos :
       edge' = EdgeCall("api", "forwarding", method, NoEdgeBody, colo, Undefined,
                        getServerForRegion(colo), 0)
  /\ UNCHANGED nodeVars

\* Either router: the fetch of the backend settles, and the router answers.
Forwarded ==
  /\ edge.pc = "forwarding"
  /\ \E st \in ForwardStatuses : edge' = [edge EXCEPT !.pc = "done", !.status = st]
  /\ UNCHANGED nodeVars

InitEdge ==
  /\ now = 0
  /\ alive = TRUE
  /\ tokenCache = [t \in Tokens |-> NoEntry]
  /\ pendingUsage = <<>>
  /\ flights = {}
  /\ reqs = [s \in Slots |-> IdleReq]
  /\ budget = 0
  /\ tokens = {"tokA"}
  /\ bodies = Bodies
  /\ nextId = 1
  /\ ackCount = [i \in 1..MaxCacheRequests |-> 0]
  /\ stores = <<>>
  /\ denied = {}
  /\ run = NoRun
  /\ ev = QuietEv("init")
  /\ edge = EdgeIdle

NextEdge ==
  \/ V1Request
  \/ V1BodyRead
  \/ ApiRequest
  \/ Forwarded

Next ==
  \/ \E s \in Slots : ReqStart(s)
  \/ \E s \in Slots : VerifyReturn(s)
  \/ \E s \in Slots : FetchReturn(s)
  \/ PeriodicFlush
  \/ \E f \in flights : FlushReturn(f)
  \/ Signal
  \/ Tick

Spec == Init /\ [][Next]_vars

\* The request path alone, for the claims about the token cache: more
\* requests, both tokens, the bodies of CacheBodies, and no flush of the
\* ledger is started by the timer or a signal.
InitCache ==
  /\ now = 0
  /\ alive = TRUE
  /\ tokenCache = [t \in Tokens |-> NoEntry]
  /\ pendingUsage = <<>>
  /\ flights = {}
  /\ reqs = [s \in Slots |-> IdleReq]
  /\ budget = MaxCacheRequests
  /\ tokens = Tokens
  /\ bodies = CacheBodies
  /\ nextId = 1
  /\ ackCount = [i \in 1..MaxCacheRequests |-> 0]
  /\ stores = <<>>
  /\ denied = {}
  /\ run = NoRun
  /\ ev = QuietEv("init")
  /\ edge = EdgeIdle

NextCache ==
  \/ \E s \in Slots : ReqStart(s)
  \/ \E s \in Slots : VerifyReturn(s)
  \/ \E s \in Slots : FetchReturn(s)
  \/ Tick

SpecCache == InitCache /\ [][NextCache]_vars

\* The edge routers alone.
SpecEdge == InitEdge /\ [][NextEdge]_vars

\* The request path with one token and every kind of body, for the claims
\* about the gates of the handler.
InitGate ==
  /\ now = 0
  /\ alive = TRUE
  /\ tokenCache = [t \in Tokens |-> NoEntry]
  /\ pendingUsage = <<>>
  /\ flights = {}
  /\ reqs = [s \in Slots |-> IdleReq]
  /\ budget = MaxGateRequests
  /\ tokens = {"tokA"}
  /\ bodies = GateBodies
  /\ nextId = 1
  /\ ackCount = [i \in 1..MaxCacheRequests |-> 0]
  /\ stores = <<>>
  /\ denied = {}
  /\ run = NoRun
  /\ ev = QuietEv("init")
  /\ edge = EdgeIdle

SpecGate == InitGate /\ [][NextCache]_vars

\* Requests and flushes with one token and the bodies of LedgerBodies, at
\* one instant and without a signal, so that more records reach the ledger:
\* for the claims about its size.
InitLedger ==
  /\ now = 0
  /\ alive = TRUE
  /\ tokenCache = [t \in Tokens |-> NoEntry]
  /\ pendingUsage = <<>>
  /\ flights = {}
  /\ reqs = [s \in Slots |-> IdleReq]
  /\ budget = MaxLedgerRequests
  /\ tokens = {"tokA"}
  /\ bodies = LedgerBodies
  /\ nextId = 1
  /\ ackCount = [i \in 1..MaxCacheRequests |-> 0]
  /\ stores = <<>>
  /\ denied = {}
  /\ run = NoRun
  /\ ev = QuietEv("init")
  /\ edge = EdgeIdle

NextLedger ==
  \/ \E s \in Slots : ReqStart(s)
  \/ \E s \in Slots : VerifyReturn(s)
  \/ \E s \in Slots : FetchReturn(s)
  \/ PeriodicFlush
  \/ \E f \in flights : FlushReturn(f)

SpecLedger == InitLedger /\ [][NextLedger]_vars

\* Both routes and the flushes, with both tokens and the bodies of
\* LedgerBodies, at one instant and without a signal: for the claims about
\* what a request is told.
InitUsage ==
  /\ now = 0
  /\ alive = TRUE
  /\ tokenCache = [t \in Tokens |-> NoEntry]
  /\ pendingUsage = <<>>
  /\ flights = {}
  /\ reqs = [s \in Slots |-> IdleReq]
  /\ budget = MaxUsageRequests
  /\ tokens = Tokens
  /\ bodies = LedgerBodies
  /\ nextId = 1
  /\ ackCount = [i \in 1..MaxCacheRequests |-> 0]
  /\ stores = <<>>
  /\ denied = {}
  /\ run = NoRun
  /\ ev = QuietEv("init")
  /\ edge = EdgeIdle

NextUsage ==
  \/ \E s \in Slots : ReqStart(s)
  \/ \E s \in Slots : VerifyReturn(s)
  \/ \E s \in Slots : FetchReturn(s)
  \/ \E s \in Slots : UsageStart(s)
  \/ \E s \in Slots : UsageVerifyReturn(s)
  \/ Health
  \/ PeriodicFlush
  \/ \E f \in flights : FlushReturn(f)

SpecUsage == InitUsage /\ [][NextUsage]_vars

\* Requests and flushes while the process lives on, the timer keeps firing
\* and the usage endpoint does not refuse a record for ever: the interval
\* timer is never cancelled (weak fairness of the periodic flush), and of the
\* submissions that hold a given record, which come again and again, one is
\* in the end answered with a success status (strong fairness).
InitLive ==
  /\ now = 0
  /\ alive = TRUE
  /\ tokenCache = [t \in Tokens |-> NoEntry]
  /\ pendingUsage = <<>>
  /\ flights = {}
  /\ reqs = [s \in Slots |-> IdleReq]
  /\ budget = MaxLiveRequests
  /\ tokens = {"tokA"}
  /\ bodies = LedgerBodies
  /\ nextId = 1
  /\ ackCount = [i \in 1..MaxCacheRequests |-> 0]
  /\ stores = <<>>
  /\ denied = {}
  /\ run = NoRun
  /\ ev = QuietEv("init")
  /\ edge = EdgeIdle

FlushAcked(id) ==
  \E f \in flights : \E outcome \in {"ok", "ok_undecodable"} :
     id \in Ids(f.batch) /\ FlushReturnAs(f, outcome)

SpecLive ==
  /\ InitLive
  /\ [][NextLedger]_vars
  /\ WF_vars(PeriodicFlush)
  /\ \A id \in 1..MaxLiveRequests : SF_vars(FlushAcked(id))

\* ================================================================ claims
\* The usage records the process holds: pending or in the batch of a flush
\* that is in flight.
Records(q) == {q[i] : i \in 1..Len(q)}
HeldRecords == Records(pendingUsage) \cup UNION {Records(f.batch) : f \in flights}
HeldIds == {r.id : r \in HeldRecords}
\* The records appended by the step.
NewRecords == {r \in HeldRecords' : r.id \notin HeldIds}
\* The slots whose outbound call is issued by the step.
NewFetches == {s \in Slots : reqs'[s].pc = "fetching" /\ reqs[s].pc # "fetching"}
\* The flushes the step starts and the ones it resolves.
StartedFlights == {f \in flights' : \A g \in flights : g.batch # f.batch}
ResolvedFlights == {f \in flights : \A g \in flights' : g.batch # f.batch}
GateStatuses == {400, 401, 402, 403}

\* The status a /v1/fetch response reports for the outbound call.
ReportedStatus(e) == IF e.fetch = "response" THEN e.resp.upstream ELSE e.resp.status

\* C1 (as stated): every completed forward attempt, whether the outbound
\* call returned a response or ended in an upstream error, appends exactly one
\* usage record whose status and latency_ms are the ones reported for the
\* request; a request rejected at a gate appends none.
C1_OneRecordPerAttempt ==
  [][/\ ev'.op = "fetched" =>
          /\ Cardinality(NewRecords) = 1
          /\ \A r \in NewRecords :
                r.latency_ms = ev'.resp.latency_ms /\ r.status = ReportedStatus(ev')
     /\ (ev'.op \in {"request", "verified"} /\ ev'.resp.status \in GateStatuses)
          => NewRecords = {}]_vars

\* C1 (amended): a forward attempt whose outbound call returned a response
\* that was read (any HTTP status) appends exactly one usage record, with the
\* status and latency_ms of the envelope; an attempt that ends in a timeout or
\* another failure of the call (504, 502) appends none, and neither does a
\* request rejected at a gate.
C1_OneRecordPerResponse ==
  [][/\ (ev'.op = "fetched" /\ ev'.fetch = "response") =>
          /\ Cardinality(NewRecords) = 1
          /\ \A r \in NewRecords :
                r.status = ev'.resp.upstream /\ r.latency_ms = ev'.resp.latency_ms
     /\ (ev'.op = "fetched" /\ ev'.fetch # "response") =>
          (NewRecords = {} /\ ev'.resp.status \in {502, 504})
     /\ (ev'.op \in {"request", "verified"} /\ ev'.resp.status \in GateStatuses)
          => NewRecords = {}]_vars

\* An upstream error status was forwarded and billed.
C1_Witness ==
  /\ ev.op = "fetched"
  /\ ev.resp.upstream = 500
  /\ \E r \in HeldRecords : r.status = 500 /\ r.id = nextId - 1

\* C2 (as stated): a timeout of the outbound call is answered 504 with
\* region and latency_ms, and one usage record is appended for it.
C2_TimeoutBilled ==
  [][ev'.fetch = "timeout" =>
        /\ ev'.resp.status = 504 /\ ev'.resp.region /\ ev'.resp.latency_ms >= 0
        /\ Cardinality(NewRecords) = 1]_vars

\* C2 (amended): a timeout of the outbound call is answered 504 with region
\* and latency_ms, and no usage record is appended for it.
C2_TimeoutNotBilled ==
  [][ev'.fetch = "timeout" =>
        /\ ev'.resp.status = 504 /\ ev'.resp.region /\ ev'.resp.latency_ms >= 0
        /\ NewRecords = {}
        /\ pendingUsage' = pendingUsage]_vars

\* A request whose target stayed silent for the clamped timeout got its 504.
C2_Witness ==
  ev.fetch = "timeout" /\ ev.resp.status = 504 /\ ev.resp.latency_ms >= ShortTimeout

\* C3: while the process is alive every record ever appended is pending, in
\* the batch of a flush in flight, or was in a batch answered with an ok status.
C3_NoRecordLost ==
  alive => \A id \in 1..(nextId - 1) : id \in HeldIds \/ ackCount[id] >= 1

\* A failed flush has pushed its batch back while another flush is in flight.
C3_Witness ==
  ev.op \in {"not_ok", "transport"} /\ pendingUsage # <<>> /\ flights # {}

\* C4: no record occurs twice in the ledger and the batches in flight, and
\* flushes in flight at the same time hold disjoint batches.
NoRepeat(q) == \A i, j \in 1..Len(q) : q[i].id = q[j].id => i = j
C4_NoDuplicate ==
  /\ NoRepeat(pendingUsage)
  /\ \A f \in flights :
        /\ NoRepeat(f.batch)
        /\ Ids(f.batch) \cap Ids(pendingUsage) = {}
        /\ \A g \in flights : g # f => Ids(f.batch) \cap Ids(g.batch) = {}

\* Two flushes are in flight at once.
C4_Witness == Cardinality(flights) = 2

\* C5: the records a failed flush (status not ok, or transport failure)
\* pushes back are, as a multiset, the records of its batch; and from a ledger
\* L with no append in between, two failed flushes followed by a successful
\* flush submit exactly L, each record once, in that last flush and leave the
\* ledger empty.
\* (run.done: two failed flushes of the ledger run.ledger, with no append in
\* between, were followed by a successful flush, whose batch is run.sent.)
SameRecords(a, b) == Records(a) = Records(b) /\ Len(a) = Len(b)
C5_PushBack ==
  \A f \in ResolvedFlights :
     ev'.op \in {"not_ok", "transport"} =>
        /\ Records(pendingUsage') = Records(pendingUsage) \cup Records(f.batch)
        /\ Len(pendingUsage') = Len(pendingUsage) + Len(f.batch)
C5_FlushIdempotent ==
  /\ [][C5_PushBack]_vars
  /\ [](run.done => (SameRecords(run.sent, run.ledger) /\ pendingUsage = <<>>))

\* Two failed flushes of a ledger of two records, then a successful one.
C5_Witness == run.done /\ ev.op = "ok" /\ Len(run.ledger) = 2

\* C6 (as stated): the drain empties the ledger in the step that forms the
\* batch, and a record appended while a flush is in flight is not in its
\* batch and is still in the ledger when that flush resolves.
C6_StillPending ==
  [][/\ StartedFlights # {} => pendingUsage' = <<>>
     /\ \A f \in ResolvedFlights :
           /\ f.during \cap Ids(f.batch) = {}
           /\ f.during \subseteq Ids(pendingUsage')]_vars

\* C6 (amended): the drain empties the ledger in the step that forms the
\* batch, and a record appended while a flush is in flight is not in its
\* batch; when that flush resolves the record is still in the ledger, or in
\* the batch of a later flush (in flight, or answered with an ok status).
C6_AtomicDrain ==
  [][/\ StartedFlights # {} => pendingUsage' = <<>>
     /\ \A f \in ResolvedFlights :
           /\ f.during \cap Ids(f.batch) = {}
           /\ \A id \in f.during :
                 \/ id \in Ids(pendingUsage')
                 \/ \E g \in flights' : id \in Ids(g.batch)
                 \/ ackCount'[id] >= 1]_vars

\* A flush failed after a record had been appended behind its back: the
\* younger record is in the ledger ahead of the batch pushed back.
C6_Witness ==
  /\ ev.op \in {"not_ok", "transport"}
  /\ Len(pendingUsage) = 2
  /\ pendingUsage[1].id > pendingUsage[2].id

\* C9: when the call to the identity backend fails in transport or its
\* response does not decode, verifyToken returns the fail-closed result, the
\* cache is unchanged, the router answers 401 with that error, and the step
\* issues no outbound call and appends no usage record.
Unavailable == "Authentication service unavailable"
C9_FailClosed ==
  [][ev'.verify \in {"transport", "undecodable"} =>
        /\ ev'.auth = [valid |-> FALSE, agent_id |-> "none", can_afford |-> "absent",
                       error |-> Unavailable, balance |-> 0 - 1, cost_per_unit |-> 0 - 1]
        /\ tokenCache' = tokenCache
        /\ ev'.resp.status = 401 /\ ev'.resp.error = Unavailable
        /\ NewFetches = {} /\ ~ev'.outbound
        /\ NewRecords = {} /\ pendingUsage' = pendingUsage]_vars

\* The backend failed for a token whose (expired) cache entry exists, from a
\* request that would otherwise have been forwarded.
C9_Witness ==
  /\ ev.verify = "transport"
  /\ ev.resp.status = 401
  /\ tokenCache[ev.token].present

\* C10: a request whose outbound call is being made has passed every gate:
\* verifyToken returned valid == true for it (from the backend or from an
\* unexpired cache entry), can_afford is not false, its body is JSON with a
\* url that parses, and the host is not on the block list.
OnBlockList(h) ==
  \/ h \in {H_localhost, H_loopback}
  \/ (Len(h) >= 3 /\ SubSeq(h, 1, 3) = <<"1","0",".">>)
  \/ (Len(h) >= 8 /\ SubSeq(h, 1, 8) = <<"1","9","2",".","1","6","8",".">>)
PassedGates(r) ==
  /\ r.auth.valid
  /\ r.auth.can_afford # "false"
  /\ r.body.json = "object" /\ r.body.url = "ok"
  /\ ~OnBlockList(r.body.host)
C10_GatesBeforeCall ==
  /\ \A s \in Slots : reqs[s].pc = "fetching" => PassedGates(reqs[s])
  /\ ev.outbound =>
        /\ ev.verify \in {"hit", "valid_true", "valid_absent"}
        /\ ev.auth.valid
        /\ \E s \in Slots : reqs[s].pc = "fetching" /\ reqs[s].auth = ev.auth

\* An outbound call was issued on the strength of a cache entry.
C10_Witness ==
  ev.outbound /\ ev.verify = "hit" /\ \E s \in Slots : reqs[s].pc = "fetching"

\* C11: a request that passed authentication and affordability and whose body
\* is JSON with a url whose hostname is 'localhost' or '127.0.0.1', or begins
\* with '10.' or '192.168.', is answered 403; the step issues no outbound call
\* and appends no usage record.
Affordable(auth) == auth.valid /\ auth.can_afford # "false"
C11_BlockedHost403 ==
  [][(/\ ev'.op \in {"request", "verified"}
      /\ Affordable(ev'.auth)
      /\ ev'.body.json = "object" /\ ev'.body.url = "ok"
      /\ OnBlockList(ev'.body.host)) =>
        /\ ev'.resp.status = 403
        /\ ~ev'.outbound /\ NewFetches = {}
        /\ NewRecords = {} /\ pendingUsage' = pendingUsage]_vars

\* A request for a host under 192.168. was refused after its token verified.
C11_Witness ==
  /\ ev.op = "verified" /\ ev.auth.valid
  /\ ev.body.host = H_lan
  /\ ev.resp.status = 403

\* C12: a request with a valid, affordable token whose body is well-formed
\* JSON that carries no url (an object without url, a value that is no
\* object, or null) is answered 400 with the error "Missing required field:
\* url"; the step issues no outbound call and appends no usage record.
MissingUrl == "Missing required field: url"
C12_MissingUrl400 ==
  [][(/\ ev'.op \in {"request", "verified"}
      /\ Affordable(ev'.auth)
      /\ ev'.body.json \in {"object", "scalar", "null"}
      /\ ev'.body.url = "absent") =>
        /\ ev'.resp.status = 400 /\ ev'.resp.error = MissingUrl
        /\ ~ev'.outbound /\ NewFetches = {}
        /\ NewRecords = {} /\ pendingUsage' = pendingUsage]_vars

\* The body null, sent with a token that verified, was answered by the
\* error handler of the router.
C12_Witness ==
  /\ ev.op = "verified" /\ Affordable(ev.auth)
  /\ ev.body.json = "null"
  /\ ev.resp.status = 500

\* C13: when the append of a /v1/fetch handler leaves the ledger with more
\* records than the cap, that same step starts one flush, which drains the
\* whole ledger, and answers the request while the flush is still in flight;
\* when the append leaves the ledger at the cap or below, the step starts no
\* flush and the record stays in the ledger.
C13_ForcedFlush ==
  [][(ev'.op = "fetched" /\ ev'.fetch = "response") =>
       LET n == Len(pendingUsage) + 1 IN
         /\ n > HARD_CAP =>
               /\ Cardinality(StartedFlights) = 1
               /\ \A f \in StartedFlights :
                     /\ f.kind = "forced"
                     /\ Ids(f.batch) = Ids(pendingUsage) \cup {nextId}
                     /\ Len(f.batch) = n
               /\ pendingUsage' = <<>>
               /\ ev'.resp.status = 200
         /\ n <= HARD_CAP =>
               /\ StartedFlights = {}
               /\ Len(pendingUsage') = n
               /\ ev'.resp.status = 200]_vars

\* A request was answered in the step that forced a flush of cap + 1 records.
C13_Witness ==
  /\ ev.op = "fetched" /\ ev.resp.status = 200
  /\ pendingUsage = <<>>
  /\ \E f \in flights : f.kind = "forced" /\ Len(f.batch) = HARD_CAP + 1 /\ f.during = {}

\* C14: a signal handler starts exactly one flush, which drains every record
\* pending at that moment into one batch (none when the ledger is empty); the
\* process exits only when no submission of a signal handler is unresolved;
\* and when the submission of a signal handler resolves, failed or not, the
\* process exits in that step and no further flush is started.
ShutdownFlights(fl) == {f \in fl : f.kind = "shutdown"}
C14_ExitAfterFlush ==
  [][/\ ev'.op \in {"signal", "exit"} =>
          IF pendingUsage # <<>>
          THEN /\ Cardinality(StartedFlights) = 1
               /\ \A f \in StartedFlights : f.kind = "shutdown" /\ f.batch = pendingUsage
               /\ pendingUsage' = <<>>
               /\ alive'
          ELSE StartedFlights = {}
     /\ (alive /\ ~alive') => ShutdownFlights(flights') = {}
     /\ \A f \in ResolvedFlights :
           f.kind = "shutdown" => (~alive' /\ StartedFlights = {})]_vars

\* The process has exited while the submission of a signal handler is
\* unresolved: a second signal arrived and found the ledger empty.
C14_Witness ==
  /\ ~alive /\ ev.op = "exit"
  /\ ShutdownFlights(flights) # {}

\* C15: a failure of the outbound call ends the request: a timeout or abort is
\* answered 504, any other failure of the call 502, both with the region and
\* with latency_ms measured from the start of the handler; the step that
\* answers issues no outbound call, and a request issues at most one.
Settled == {s \in Slots : reqs[s].pc = "fetching" /\ reqs'[s].pc # "fetching"}
C15_FailureTerminal ==
  [][/\ ev'.op = "fetched" =>
          /\ Cardinality(Settled) = 1
          /\ NewFetches = {} /\ ~ev'.outbound
          /\ \A s \in Settled :
                /\ reqs'[s].pc = "idle"
                /\ ev'.fetch = "timeout" => ev'.resp.status = 504
                /\ ev'.fetch \in {"transport", "body_error"} => ev'.resp.status = 502
                /\ ev'.fetch # "response" =>
                      /\ ev'.resp.region
                      /\ ev'.resp.latency_ms = now - reqs[s].startTime
     /\ NewFetches # {} =>
          /\ ev'.op \in {"request", "verified"}
          /\ \A s \in NewFetches : reqs[s].pc \in {"idle", "verifying"}
     /\ Settled # {} => ev'.op = "fetched"]_vars

\* A transport failure of the outbound call was answered 502 one tick after
\* the request arrived.
C15_Witness ==
  /\ ev.op = "fetched" /\ ev.fetch = "transport"
  /\ ev.resp.status = 502 /\ ev.resp.latency_ms = TickMs

\* What a request is told, from what belongs to the request alone: the
\* header, what verifyToken returned, the body, how the outbound call ended
\* and the time since the handler started.
BadHeader == ev'.verify = "none" /\ ev'.auth = NoAuth
FetchTold ==
  /\ (ev'.op \in {"request", "verified"} /\ ev'.resp # NoResp) =>
        ev'.resp = IF BadHeader THEN Resp(401, "Missing or invalid Authorization header")
                   ELSE GateResponse(ev'.auth, ev'.body)
  /\ ev'.op = "fetched" =>
        \E s \in Settled :
           LET latency == now - reqs[s].startTime IN
             \/ /\ ev'.fetch = "response"
                /\ \E st \in UpstreamStatuses : ev'.resp = Envelope(st, latency)
             \/ /\ ev'.fetch = "timeout"
                /\ ev'.resp = TimedResp(504, "Request timeout", latency)
             \/ /\ ev'.fetch \in {"transport", "body_error"}
                /\ ev'.resp = TimedResp(502, "fetch failed", latency)
UsageOps == {"usage", "usage_verified"}
UsageTold ==
  (ev'.op \in UsageOps /\ ev'.resp # NoResp) =>
     /\ ev'.resp.status = IF ev'.auth.valid THEN 200 ELSE 401
     /\ ev'.resp.agent_id = ev'.auth.agent_id
     /\ ev'.resp.error = IF BadHeader THEN "Unauthorized" ELSE ev'.auth.error

\* The ledger that the submission of flight f leaves, for each way it can end.
LedgerIf(f, outcome) ==
  IF Requeues(outcome) THEN LedgerAfterFailure(pendingUsage, f.batch) ELSE pendingUsage
Auths == {ValidResult(t, a) : t \in Tokens, a \in {"true", "false", "absent"}}
WithoutCount(resp) == [resp EXCEPT !.pending_records = 0]
CountFor(agent, ledger) == Cardinality({i \in 1..Len(ledger) : ledger[i].agent_id = agent})

\* C16 (as stated): what a /v1/fetch or /v1/usage request is told, status
\* and body, rests on the request alone and is the same however the
\* submission of any flush in flight ends (the forced flush of the request's
\* own step included).
C16_SameResponse ==
  /\ [][FetchTold /\ UsageTold]_vars
  /\ [](\A f \in flights : \A o1, o2 \in FlushOutcomes : \A a \in Auths :
          UsageResponse(a, LedgerIf(f, o1)) = UsageResponse(a, LedgerIf(f, o2)))

\* C16 (amended): what a /v1/fetch request is told rests on the request
\* alone, and so do the status and the body of a /v1/usage answer except for
\* pending_records, which is the number of the agent's records in the ledger
\* when the answer is made and so counts the batches that failed flushes have
\* pushed back; no answer carries an error of a flush.
C16_OnlyPendingCount ==
  /\ [][/\ FetchTold /\ UsageTold
        /\ (ev'.op \in UsageOps /\ ev'.resp.status = 200) =>
              ev'.resp.pending_records = CountFor(ev'.auth.agent_id, pendingUsage)]_vars
  /\ [](\A f \in flights : \A o1, o2 \in FlushOutcomes : \A a \in Auths :
          WithoutCount(UsageResponse(a, LedgerIf(f, o1))) =
             WithoutCount(UsageResponse(a, LedgerIf(f, o2))))

\* After a failed flush pushed its batch back, an agent asked /v1/usage and
\* was told of one pending record.
C16_Witness ==
  /\ ev.op \in UsageOps /\ ev.resp.status = 200
  /\ ev.resp.pending_records = 1
  /\ run.active /\ run.fails = 1

\* C17: a batch whose submission was answered with a success status is not
\* pushed back onto the ledger, and no record is in more than one submission
\* answered with a success status.
SuccessStatus == {"ok", "ok_undecodable"}
C17_AckedNeverRequeued ==
  /\ [][(ev'.op \in SuccessStatus /\ ResolvedFlights # {}) =>
          pendingUsage' = pendingUsage]_vars
  /\ [](\A id \in DOMAIN ackCount : ackCount[id] <= 1)

\* A record was in two submissions that were both answered with a success
\* status: the first answer did not decode and the batch was pushed back.
C17_Witness ==
  /\ ev.op \in SuccessStatus
  /\ \E id \in DOMAIN ackCount : ackCount[id] = 2

\* C18: while the process lives, the periodic flush keeps firing and the
\* usage endpoint in the end answers with a success status, every record that
\* is appended is eventually in a batch answered with a success status.
C18_EventualDelivery ==
  \A id \in 1..MaxLiveRequests : (nextId > id) ~> (ackCount[id] >= 1)

\* A ledger was delivered by the flush that followed two failed ones.
C18_Witness ==
  /\ run.done /\ pendingUsage = <<>> /\ flights = {}
  /\ nextId > 1
  /\ \A id \in 1..(nextId - 1) : ackCount[id] >= 1

\* C19: in every reachable state the ledger holds at most cap + 1 records.
C19_LedgerBounded == Len(pendingUsage) <= HARD_CAP + 1

\* Failed flushes pushed their batches back onto a ledger that had grown.
C19_Witness ==
  /\ ev.op \in {"not_ok", "transport"}
  /\ Len(pendingUsage) = HARD_CAP + 2

\* C20: when the process exits through a signal handler, no record appended
\* before that handler's signal is in a batch whose submission is unresolved:
\* the batches still in flight hold only records appended after the signal.
\* (The records appended after the signal are the ones the handler's flush
\* saw appended while it was in flight; all of them when it started none.)
AppendedSinceSignal == UNION {f.during : f \in ShutdownFlights(ResolvedFlights)}
C20_AllResolvedAtExit ==
  [][(alive /\ ~alive') =>
        \A g \in flights' : Ids(g.batch) \subseteq AppendedSinceSignal]_vars

\* The process has exited while the batch of a periodic or forced flush that
\* was in flight when the signal arrived is unresolved.
C20_Witness ==
  /\ ~alive
  /\ ShutdownFlights(flights) = {}
  /\ \E f \in flights : f.kind \in {"interval", "forced"}

\* C21: the gates of /v1/fetch are tried in the order header (401),
\* verification (401), affordability (402), JSON (400), url present (400), url
\* parses (400), host (403), and the first one that fails gives the response;
\* no outbound call is issued then.
\* (ClaimedGate is the status and error of the first failing gate in that
\* order, status 0 when every gate passes.)
ClaimedGate(header, auth, body) ==
  IF header # "bearer" THEN <<401, "Missing or invalid Authorization header">>
  ELSE IF ~auth.valid THEN <<401, auth.error>>
  ELSE IF auth.can_afford = "false" THEN <<402, "Insufficient credits">>
  ELSE IF body.json = "malformed" THEN <<400, "Invalid JSON body">>
  ELSE IF body.url = "absent" THEN <<400, MissingUrl>>
  ELSE IF body.url = "unparseable" THEN <<400, "Invalid URL">>
  ELSE IF OnBlockList(body.host) THEN <<403, "Internal URLs not allowed">>
  ELSE <<0, "none">>
GatesRun == ev'.op \in {"request", "verified"} /\ ev'.verify # "miss"
C21_GateOrder ==
  [][GatesRun =>
       LET g == ClaimedGate(ev'.header, ev'.auth, ev'.body) IN
         g[1] # 0 =>
           /\ ev'.resp.status = g[1] /\ ev'.resp.error = g[2]
           /\ ~ev'.outbound /\ NewFetches = {}]_vars

\* A token without a can_afford field came with the body null: every gate
\* before the url gate passed and the answer is none of the gates'.
C21_Witness ==
  /\ ev.op = "verified" /\ ev.verify = "valid_absent"
  /\ ev.body.json = "null"
  /\ ev.resp.status \notin GateStatuses

\* C22: a request is answered 402, with the balance and the unit cost of the
\* verification result, exactly when verification was valid and can_afford is
\* false; with a valid result whose can_afford is absent or true the handler
\* goes on to the body: the answer is neither 401 nor 402, and a body that
\* passes the gates is forwarded.
C22_Only402WhenFalse ==
  [][GatesRun =>
       /\ ev'.resp.status = 402 <=>
             (ev'.header = "bearer" /\ ev'.auth.valid /\ ev'.auth.can_afford = "false")
       /\ ev'.resp.status = 402 =>
             /\ ev'.resp.balance = ev'.auth.balance
             /\ ev'.resp.cost_per_request = ev'.auth.cost_per_unit
             /\ ~ev'.outbound
       /\ (ev'.auth.valid /\ ev'.auth.can_afford \in {"absent", "true"}) =>
             /\ ev'.resp.status \notin {401, 402}
             /\ ev'.body = PlainBody => ev'.outbound]_vars

\* A valid token that cannot afford the request was turned away although
\* its body passes every gate.
C22_Witness ==
  /\ ev.op = "verified" /\ ev.verify = "valid_false"
  /\ ev.body = PlainBody
  /\ ev.resp.status = 402 /\ ev.resp.balance = 0

\* C23: the timeout of an outbound call is never above 30000 ms: it is 30000
\* when the requested timeout is absent or 0, the requested value when that
\* is above 0 and at most 30000, and 30000 when it is above 30000.
ClaimedTimeout(t) ==
  IF t = 0 THEN 30000 ELSE IF t > 0 /\ t <= 30000 THEN t ELSE 30000
NoToken == "No token provided"
StartedVerifying == {s \in Slots : reqs'[s].pc = "verifying" /\ reqs[s].pc # "verifying"}
C24_EmptyTokenAndHeader ==
  [][ev'.op = "request" =>
       /\ (ev'.header = "bearer" /\ ev'.token = "") =>
             /\ ev'.verify = "empty"
             /\ ~ev'.auth.valid /\ ev'.auth.error = NoToken
             /\ ~ev'.backendCall /\ StartedVerifying = {}
             /\ tokenCache' = tokenCache
             /\ ev'.resp.status = 401 /\ ev'.resp.error = NoToken
       /\ ev'.header # "bearer" =>
             /\ ev'.verify = "none"
             /\ ~ev'.backendCall /\ StartedVerifying = {}
             /\ tokenCache' = tokenCache
             /\ ev'.resp.status = 401
             /\ ~ev'.outbound /\ NewFetches = {}]_vars

\* An empty bearer token came with a body that passes every gate.
C24_Witness ==
  /\ ev.op = "request" /\ ev.header = "bearer" /\ ev.token = ""
  /\ ev.body = PlainBody
  /\ ev.resp.status = 401

\* The step starts verifyToken for a non-empty token (cache lookup made).
VerifyStarts == ev'.op = "request" /\ ev'.verify \in {"hit", "miss"}
StoresOf(tok) == {i \in 1..Len(stores) : stores[i].token = tok}
Fresh(i, t) == t < stores[i].at + TOKEN_CACHE_TTL

\* C7 (as stated): once a valid result was stored for T at time t, every
\* verify(T) that runs before t + 60000 returns that result without a backend
\* call, and the first verify(T) at or after t + 60000 calls the backend.
C7_SameStoredResult ==
  [][VerifyStarts =>
       \A i \in StoresOf(ev'.token) :
          /\ Fresh(i, now) =>
               (ev'.verify = "hit" /\ ev'.auth = stores[i].result /\ ~ev'.backendCall)
          /\ (~Fresh(i, now) /\ ~stores[i].seen) =>
               (ev'.verify = "miss" /\ ev'.backendCall)]_vars

\* C7 (amended): a verify(T) that runs less than 60000 ms after the time t at
\* which a valid result was most recently stored for T returns that result
\* without a backend call; every verify(T) that runs at or after t + 60000
\* calls the backend.
LastStore(tok) == CHOOSE i \in StoresOf(tok) : \A j \in StoresOf(tok) : j <= i
C7_LatestStoredResult ==
  [][(VerifyStarts /\ StoresOf(ev'.token) # {}) =>
       LET i == LastStore(ev'.token) IN
          /\ Fresh(i, now) =>
               (ev'.verify = "hit" /\ ev'.auth = stores[i].result /\ ~ev'.backendCall)
          /\ ~Fresh(i, now) => (ev'.verify = "miss" /\ ev'.backendCall)]_vars

\* A cache hit served the result of the later of two stores for one token.
C7_Witness ==
  /\ ev.op = "request" /\ ev.verify = "hit"
  /\ \E i, j \in StoresOf(ev.token) :
        i < j /\ stores[i].result # stores[j].result /\ ev.auth = stores[j].result

\* C8 (as stated): every cache entry is valid, a verify that returns
\* valid:false leaves the cache unchanged, and repeating it queries the
\* backend again.
InvalidReturn == ev'.verify \in {"invalid", "transport", "undecodable"}
CacheOnlyValid == \A tok \in Tokens : tokenCache[tok].present => tokenCache[tok].result.valid
C8_AlwaysRequeried ==
  /\ []CacheOnlyValid
  /\ [][/\ InvalidReturn => (~ev'.auth.valid /\ tokenCache' = tokenCache)
        /\ (VerifyStarts /\ ev'.token \in denied) => ev'.backendCall]_vars

\* C8 (amended): every cache entry is valid, a verify that returns
\* valid:false leaves the cache unchanged, and repeating it queries the
\* backend again unless the cache holds an unexpired valid entry for the
\* token (stored by a verification that overlapped it), which is returned.
C8_NeverCached ==
  /\ []CacheOnlyValid
  /\ [][/\ InvalidReturn => (~ev'.auth.valid /\ tokenCache' = tokenCache)
        /\ (VerifyStarts /\ ev'.token \in denied) =>
              \/ ev'.backendCall
              \/ /\ StoresOf(ev'.token) # {}
                 /\ Fresh(LastStore(ev'.token), now)
                 /\ ev'.auth = stores[LastStore(ev'.token)].result]_vars

\* The backend refused a token whose earlier valid entry is still in the cache.
C8_Witness ==
  /\ ev.op = "verified" /\ ev.verify = "invalid"
  /\ ev.token \in denied
  /\ tokenCache[ev.token].present

\* C25: a verifyToken call for a token without an unexpired cache entry
\* issues its own backend call, whether or not another call for that token is
\* awaiting its response; and the cache holds for a token exactly the valid
\* result that was returned last for it, with expiry 60000 ms after the time
\* it was returned (no entry when no valid result was returned).
Unexpired(tok) == tokenCache[tok].present /\ tokenCache[tok].expires > now
C25_OwnBackendCall ==
  /\ [][(ev'.op = "request" /\ ev'.header = "bearer" /\ ev'.token # ""
          /\ ~Unexpired(ev'.token)) =>
            /\ ev'.verify = "miss" /\ ev'.backendCall
            /\ Cardinality(StartedVerifying) = 1]_vars
  /\ [](\A tok \in Tokens :
          IF StoresOf(tok) = {} THEN ~tokenCache[tok].present
          ELSE tokenCache[tok] =
                 [present |-> TRUE, result |-> stores[LastStore(tok)].result,
                  expires |-> stores[LastStore(tok)].at + 60000])

\* Two verifications of one token overlapped and returned different valid
\* results at different times; both have resolved and the cache holds the
\* later one.
C25_Witness ==
  /\ \A s \in Slots : reqs[s].pc # "verifying"
  /\ \E i, j \in 1..Len(stores) :
        /\ i < j /\ stores[i].token = stores[j].token
        /\ stores[i].at < stores[j].at /\ stores[j].at < stores[i].at + 60000
        /\ stores[i].result # stores[j].result
        /\ tokenCache[stores[j].token].result = stores[j].result
        /\ tokenCache[stores[j].token].expires = stores[j].at + 60000

\* C26: a cache hit leaves the cache as it is; it is served only while less
\* than 60000 ms have passed since its entry was stored; and an entry, once
\* present, stays until a later valid backend response for the same token
\* replaces it: the only step that changes the cache is the return of a valid
\* verification, and it changes the entry of its token alone.
C26_HitLeavesCache ==
  [][/\ ev'.verify = "hit" =>
          /\ tokenCache' = tokenCache
          /\ StoresOf(ev'.token) # {}
          /\ now < stores[LastStore(ev'.token)].at + 60000
          /\ ev'.auth = stores[LastStore(ev'.token)].result
     /\ \A tok \in Tokens :
          /\ tokenCache[tok].present => tokenCache'[tok].present
          /\ tokenCache'[tok] # tokenCache[tok] =>
                /\ ev'.op = "verified" /\ ev'.token = tok /\ ev'.auth.valid
                /\ tokenCache'[tok].result = ev'.auth
                /\ tokenCache'[tok].expires = now + 60000]_vars

\* An entry stored at time 0 was served one tick later, its expiry still
\* 60000, and is still in the cache.
C26_Witness ==
  /\ ev.op = "request" /\ ev.verify = "hit"
  /\ now = TickMs
  /\ tokenCache[ev.token].expires = 60000

\* The steps that invoke reportUsage from the timer or a signal handler (the
\* forced flush of the fetch handler runs only on a ledger above the cap).
FlushCalls == {"flush_noop", "flush_start", "exit", "signal"}

\* C27: a flush invoked on an empty ledger submits nothing and changes no
\* state of the process (the ledger, the submissions in flight, the token
\* cache, the requests in progress; a signal handler then exits, which is its
\* own doing); and every batch ever submitted holds at least one record.
C27_EmptyFlushNoop ==
  /\ [][(ev'.op \in FlushCalls /\ Len(pendingUsage) = 0) =>
            /\ flights' = flights
            /\ pendingUsage' = pendingUsage
            /\ tokenCache' = tokenCache
            /\ reqs' = reqs
            /\ ev'.op = "flush_noop" => alive' = alive]_vars
  /\ [](\A f \in flights : Len(f.batch) >= 1)

\* The timer fired on an empty ledger while the batch drained by an earlier
\* flush was still in flight.
C27_Witness ==
  /\ ev.op = "flush_noop"
  /\ Len(pendingUsage) = 0
  /\ flights # {}

\* The responses with which POST /v1/fetch turns a request down: those of the
\* header check and the gates, the 500 of the error handler, and the failure
\* envelopes of the outbound fetch.
Rejected(e) ==
  /\ e.op \in {"request", "verified", "fetched"}
  /\ e.resp.status \notin {0, 200}

\* C28: the steps of GET /v1/usage and GET /health and every step in which
\* POST /v1/fetch answers with a rejection leave the usage ledger as it is;
\* the 200 of /v1/usage carries as pending_records the number of records in
\* the ledger, at the moment of the response, whose agent_id is that of the
\* verified agent; /health carries as pending_usage_records the length of
\* the ledger.
C28_ReadOnlyRoutes ==
  [][/\ (ev'.op \in UsageOps \cup {"health"} \/ Rejected(ev')) =>
          /\ pendingUsage' = pendingUsage
          /\ flights' = flights
     /\ (ev'.op \in UsageOps /\ ev'.resp.status = 200) =>
          /\ ev'.auth.valid
          /\ ev'.resp.agent_id = ev'.auth.agent_id
          /\ ev'.resp.pending_records =
               Cardinality({i \in 1..Len(pendingUsage') :
                              pendingUsage'[i].agent_id = ev'.auth.agent_id})
     /\ ev'.op = "health" =>
          /\ ev'.resp.status = 200
          /\ ev'.resp.pending_usage_records = Len(pendingUsage')]_vars

\* /health answered with two pending records that belong to different
\* agents, so that the count of /v1/usage for either is one.
C28_Witness ==
  /\ ev.op = "health"
  /\ ev.resp.pending_usage_records = 2
  /\ Len(pendingUsage) = 2
  /\ pendingUsage[1].agent_id # pendingUsage[2].agent_id

\* The addresses of the four regional nodes.
NodeAddresses == {BACKENDS[r] : r \in DOMAIN BACKENDS}

\* The codes that getServerForRegion knows, in whatever case.
Recognized(colo) == ToUpperCase(colo) \in Europe \cup AsiaPacific \cup USWest

\* C29: whenever an edge router has settled on an address, it is one of the
\* four node addresses; the /v1 router uses the region of the body of a POST
\* when the body is a JSON object whose region is one of the four known
\* identifiers, and us-east in every other case; the /api router sends a
\* request without a location code, or with one it does not recognize, to
\* the us-east node.
C29_KnownRegionOnly ==
  /\ (edge.route = "v1" /\ edge.pc \in {"forwarding", "done"} /\ edge.method # "OPTIONS") =>
        /\ edge.region =
             IF /\ edge.method = "POST"
                /\ edge.body.json = "object"
                /\ edge.body.region \in DOMAIN BACKENDS
             THEN edge.body.region
             ELSE "us-east"
        /\ edge.target \in NodeAddresses
        /\ edge.target = BACKENDS[edge.region]
  /\ edge.route = "api" =>
        /\ edge.target \in NodeAddresses
        /\ (edge.colo = Undefined \/ ~Recognized(edge.colo)) =>
              edge.target = "http://nyc.klawfetch.xyz:3000"

\* A POST whose body names the region "constructor" was answered with 502:
\* the router took the name for a region and found no address for it.
C29_Witness ==
  /\ edge.route = "v1" /\ edge.pc = "done"
  /\ edge.body = EdgeBody("object", "constructor")
  /\ edge.region = "constructor"
  /\ edge.target \notin NodeAddresses
  /\ edge.status = 502
====
